---- MODULE Spec2Model ----
(***************************************************************************)
(* A model of the DailyView component of my-time-keeper                    *)
(* (src/src/components/views/dailyView.tsx) as mounted by the daily page   *)
(* (src/src/app/daily/page.tsx).                                           *)
(*                                                                         *)
(* Time is counted in whole seconds.  `now` is the machine clock as UTC    *)
(* seconds, `tz` the offset of local time, so that                         *)
(*   new Date().toISOString().split('T')[0]   is  UTCDate(now)   and       *)
(*   getHours() * 60 + getMinutes()           is  LocalMinutes(now).       *)
(* A calendar date is the index of its day; an ISO local date-time is the  *)
(* number of minutes since local day 0.                                    *)
(*                                                                         *)
(* Timers are ideal: a timer fires in the second it is due, and the clock  *)
(* does not pass a due timer.                                              *)
(*                                                                         *)
(* Fractions are kept exact as numerators: nowFraction over                *)
(* TotalDayMinutes, a block's top/height percentage over TotalDayMinutes,  *)
(* scrollTop (pixels) over ScrollUnit.  Floating-point rounding of the     *)
(* JavaScript numbers is not modelled.                                     *)
(***************************************************************************)
EXTENDS Integers, Sequences, FiniteSets, TLC

VARIABLES
    now,                \* machine clock, UTC seconds
    tz,                 \* local-time offset of the machine, seconds
    elapsed,            \* seconds the clock has advanced since Init
    phase,              \* "init" (not yet mounted) | "mounted" | "unmounted"
    date,               \* props.date
    events,             \* props.events
    scrollHeight,       \* container.scrollHeight, px
    clientHeight,       \* container.clientHeight, px
    scrollTop,          \* container.scrollTop, numerator over ScrollUnit
    isToday,            \* isToday of the latest render
    nowFraction,        \* useState nowFraction, numerator over TotalDayMinutes
    scrollContainerRef, \* scrollContainerRef.current is an element
    eventRefs,          \* ids with an element in eventRefs.current
    intervals,          \* scheduled setInterval timers: [id, due]
    intervalId,         \* intervalId of the effect's closure, 0 for null
    timeouts,           \* pending setTimeout callbacks: [el, due]
    highlighted,        \* ids whose <li> carries ring-2 ring-indigo-500
    priorityMap,        \* priorityMap of the latest render
    blocks,             \* style of each rendered <li>: [id, top, height]
    labels,             \* the label of each rendered slot, "" for none
    clickLog            \* the ids handlePriorityClick was called with, in order

vars == <<now, tz, elapsed, phase, date, events, scrollHeight, clientHeight,
          scrollTop, isToday, nowFraction, scrollContainerRef, eventRefs,
          intervals, intervalId, timeouts, highlighted, priorityMap, blocks, labels,
          clickLog>>

(***************************************************************************)
(* Program constants                                                       *)
(***************************************************************************)
TotalDayMinutes == 1440
IntervalSeconds == 60
HighlightSeconds == 2
SecondsPerMinute == 60
SecondsPerDay == TotalDayMinutes * SecondsPerMinute
ScrollUnit == 200 * TotalDayMinutes
PriorityLevels == {1, 2, 3}
totalSlots == 48

(***************************************************************************)
(* Bounds of the model                                                     *)
(***************************************************************************)
MaxElapsed == 65
MaxClickElapsed == 4
MaxClicks == 3
MaxEvents == 3
MaxLayoutEvents == 2

(***************************************************************************)
(* Clock and date conversions                                              *)
(***************************************************************************)
Max(a, b) == IF a >= b THEN a ELSE b
Min(a, b) == IF a <= b THEN a ELSE b

\* new Date().toISOString().split('T')[0]: the calendar date in UTC
UTCDate(t) == t \div SecondsPerDay

\* now.getHours() * 60 + now.getMinutes(): minutes of the local day
LocalMinutes(t) == ((t + tz) % SecondsPerDay) \div SecondsPerMinute

\* const isToday = date === new Date().toISOString().split('T')[0]
IsTodayOf(d) == d = UTCDate(now)

computeNowFraction == LocalMinutes(now)

\* new Date(isoString); getHours() * 60 + getMinutes()
getMinutesOfDay(isoString) == isoString % TotalDayMinutes

IsoAt(day, hour, minute) == day * TotalDayMinutes + hour * 60 + minute

(***************************************************************************)
(* Props: the events of the daily page                                     *)
(***************************************************************************)
PageEvents(isoDate) ==
    << [id |-> 1, start |-> IsoAt(isoDate, 6, 0), end |-> IsoAt(isoDate, 7, 0),
        priorityLevel |-> 1],
       [id |-> 2, start |-> IsoAt(isoDate, 7, 30), end |-> IsoAt(isoDate, 9, 0),
        priorityLevel |-> 2],
       [id |-> 3, start |-> IsoAt(isoDate, 19, 0), end |-> IsoAt(isoDate, 20, 30),
        priorityLevel |-> 3] >>

IdsOf(evts) == {evts[i].id : i \in DOMAIN evts}

EventOf(evts, id) == evts[CHOOSE i \in DOMAIN evts : evts[i].id = id]

(***************************************************************************)
(* Render: grouping by priority and the style of the timeline blocks       *)
(***************************************************************************)
EmptyPriorityMap == [p \in PriorityLevels |-> <<>>]

\* A bug that inserts at the front of the bucket
PushEventFront(map, evt) ==
    [map EXCEPT ![evt.priorityLevel] = <<evt>> \o @]

\* priorityMap[evt.priorityLevel].push(evt)
PushEvent(map, evt) ==
    [map EXCEPT ![evt.priorityLevel] = Append(@, evt)]

RECURSIVE ForEachPush(_, _)
ForEachPush(evts, map) ==
    IF evts = <<>> THEN map
    ELSE ForEachPush(Tail(evts), PushEvent(map, Head(evts)))

PriorityMapOf(evts) == ForEachPush(evts, EmptyPriorityMap)

\* A bug that takes the end percentage for the height
BlockStyleEndAsHeight(evt) ==
    [top |-> getMinutesOfDay(evt.start) * 100,
     height |-> getMinutesOfDay(evt.end) * 100]

\* top: `${startPct}%`, height: `${endPct - startPct}%`, as numerators over
\* TotalDayMinutes
BlockStyle(evt) ==
    LET startMinutes == getMinutesOfDay(evt.start)
        endMinutes == getMinutesOfDay(evt.end)
        startPct == startMinutes * 100
        endPct == endMinutes * 100
    IN  [top |-> startPct, height |-> endPct - startPct]

BlocksOf(evts) == [id \in IdsOf(evts) |-> BlockStyle(EventOf(evts, id))]

\* A bug that leaves midnight and noon as hour 0
formatHourLabelNoTwelve(hour24) ==
    LET ampm == IF hour24 < 12 THEN "AM" ELSE "PM"
    IN  ToString(hour24 % 12) \o ampm

\* formatHourLabel: `${hour}${ampm}`
formatHourLabel(hour24) ==
    LET ampm == IF hour24 < 12 THEN "AM" ELSE "PM"
        hour == IF hour24 % 12 = 0 THEN 12 ELSE hour24 % 12
    IN  ToString(hour) \o ampm

\* The time labels layer: one <div> per slot, labelled when slotIndex % 2 === 0
LabelsOf ==
    [slotIndex \in 0..(totalSlots - 1) |->
        IF slotIndex % 2 = 0 THEN formatHourLabel(slotIndex \div 2) ELSE ""]

(***************************************************************************)
(* Scrolling                                                               *)
(***************************************************************************)
MaxScroll == scrollHeight - clientHeight

\* A bug that scales by the full scroll height
ScrollPositionOfHeight(minutesSinceMidnight, maxScroll) ==
    minutesSinceMidnight * scrollHeight * 200

\* (minutesSinceMidnight / 1440) * maxScroll, numerator over ScrollUnit
ScrollPosition(minutesSinceMidnight, maxScroll) ==
    minutesSinceMidnight * maxScroll * 200

\* scrollToNow: the scrollTop it leaves, given the container ref and the
\* isToday of its closure
scrollToNow(container, today, cur) ==
    IF ~container \/ ~today THEN cur
    ELSE LET minutesSinceMidnight == LocalMinutes(now)
             maxScroll == MaxScroll
             scrollPosition == ScrollPosition(minutesSinceMidnight, maxScroll)
         IN  Max(0, Min(scrollPosition, maxScroll * ScrollUnit))

\* element.scrollIntoView({ block: 'center' }): the block's centre is brought
\* to the centre of the container, as far as the scroll range allows.  The
\* block sits at top% / height% of the scrollHeight-tall timeline.
scrollIntoViewCenter(id) ==
    LET centre == (2 * blocks[id].top + blocks[id].height) * scrollHeight
        half == clientHeight * 100 * TotalDayMinutes
    IN  Max(0, Min(centre - half, MaxScroll * ScrollUnit))

(***************************************************************************)
(* Timers                                                                  *)
(***************************************************************************)
\* The id setInterval returns: one no scheduled interval has
FreshId(ivs) ==
    CHOOSE i \in 1..(Cardinality(ivs) + 1) : \A t \in ivs : t.id # i

\* A cleanup that forgets to clear the interval
CleanupNothing(ivs, id) == ivs

\* The effect's cleanup: if (intervalId) clearInterval(intervalId)
Cleanup(ivs, id) ==
    IF id # 0 THEN {t \in ivs : t.id # id} ELSE ivs

\* A timeout callback that strips the ring from every block
RemoveHighlightAll(hl, el) == {}

\* element.classList.remove('ring-2', 'ring-indigo-500')
RemoveHighlight(hl, el) == hl \ {el}

\* A guard that forgets the container
ClickTargetElementOnly(id) == id \in eventRefs

\* element && scrollContainerRef.current
ClickTarget(id) == id \in eventRefs /\ scrollContainerRef

TimerDue == \/ \E t \in intervals : t.due <= now
            \/ \E t \in timeouts : t.due <= now

(***************************************************************************)
(* One render of DailyView with props.date = d, its commit and its effect. *)
(* ivs are the intervals scheduled when the render starts.  The effect     *)
(* runs on the first render and whenever isToday (and with it scrollToNow) *)
(* differs from the previous render's; the previous effect's cleanup runs  *)
(* first.                                                                  *)
(***************************************************************************)
Rendered(d, ivs) ==
    LET today == IsTodayOf(d)
        first == phase = "init"
        rerun == first \/ today # isToday
        cleaned == IF first THEN ivs ELSE Cleanup(ivs, intervalId)
        newId == FreshId(cleaned)
    IN  [isToday |-> today,
         scrollTop |-> IF rerun /\ today
                       THEN scrollToNow(TRUE, today, scrollTop)
                       ELSE scrollTop,
         intervals |-> IF ~rerun THEN ivs
                       ELSE IF today
                            THEN cleaned \cup
                                 {[id |-> newId, due |-> now + IntervalSeconds]}
                            ELSE cleaned,
         intervalId |-> IF ~rerun THEN intervalId
                        ELSE IF today THEN newId ELSE 0]

Commit(d, ivs) ==
    LET r == Rendered(d, ivs)
    IN  /\ date' = d
        /\ isToday' = r.isToday
        /\ scrollTop' = r.scrollTop
        /\ intervals' = r.intervals
        /\ intervalId' = r.intervalId
        /\ priorityMap' = PriorityMapOf(events)
        /\ blocks' = BlocksOf(events)
        /\ labels' = LabelsOf
        /\ scrollContainerRef' = TRUE
        /\ eventRefs' = eventRefs \cup IdsOf(events)

(***************************************************************************)
(* Actions                                                                 *)
(***************************************************************************)
\* The first render: useState(() => computeNowFraction()), then the commit
Mount ==
    /\ phase = "init"
    /\ phase' = "mounted"
    /\ nowFraction' = computeNowFraction
    /\ Commit(date, intervals)
    /\ UNCHANGED <<now, tz, elapsed, events, scrollHeight, clientHeight,
                   timeouts, highlighted, clickLog>>

\* The parent renders the view again, with props.date = d
Rerender(d) ==
    /\ phase = "mounted"
    /\ Commit(d, intervals)
    /\ UNCHANGED <<now, tz, elapsed, phase, events, scrollHeight,
                   clientHeight, nowFraction, timeouts, highlighted, clickLog>>

\* The interval fires: setNowFraction(computeNowFraction()); a changed state
\* renders the view again
IntervalTick ==
    \E t \in intervals :
        /\ t.due <= now
        /\ LET again == (intervals \ {t}) \cup
                        {[id |-> t.id, due |-> t.due + IntervalSeconds]}
           IN  IF phase = "mounted"
               THEN /\ nowFraction' = computeNowFraction
                    /\ IF computeNowFraction # nowFraction
                       THEN Commit(date, again)
                       ELSE /\ intervals' = again
                            /\ UNCHANGED <<date, isToday, scrollTop,
                                           intervalId, priorityMap, blocks, labels,
                                           scrollContainerRef, eventRefs>>
               ELSE /\ intervals' = again
                    /\ UNCHANGED <<date, isToday, scrollTop, intervalId,
                                   priorityMap, blocks, labels, scrollContainerRef,
                                   eventRefs, nowFraction>>
        /\ UNCHANGED <<now, tz, elapsed, phase, events, scrollHeight,
                       clientHeight, timeouts, highlighted, clickLog>>

\* The "Today" button: onClick={scrollToNow}
TodayClick ==
    /\ phase = "mounted"
    /\ scrollTop' = scrollToNow(scrollContainerRef, isToday, scrollTop)
    /\ UNCHANGED <<now, tz, elapsed, phase, date, events, scrollHeight,
                   clientHeight, isToday, nowFraction, scrollContainerRef,
                   eventRefs, intervals, intervalId, timeouts, highlighted,
                   priorityMap, blocks, labels, clickLog>>

\* handlePriorityClick(id)
handlePriorityClick(id) ==
    /\ phase # "init"
    /\ Len(clickLog) < MaxClicks
    /\ clickLog' = Append(clickLog, id)
    /\ IF ClickTarget(id)
       THEN /\ scrollTop' = scrollIntoViewCenter(id)
            /\ highlighted' = highlighted \cup {id}
            /\ timeouts' = timeouts \cup
                           {[el |-> id, due |-> now + HighlightSeconds]}
       ELSE UNCHANGED <<scrollTop, highlighted, timeouts>>
    /\ UNCHANGED <<now, tz, elapsed, phase, date, events, scrollHeight,
                   clientHeight, isToday, nowFraction, scrollContainerRef,
                   eventRefs, intervals, intervalId, priorityMap, blocks, labels>>

\* The callback of the click's setTimeout
HighlightTimeout ==
    \E t \in timeouts :
        /\ t.due <= now
        /\ timeouts' = timeouts \ {t}
        /\ highlighted' = RemoveHighlight(highlighted, t.el)
        /\ UNCHANGED <<now, tz, elapsed, phase, date, events, scrollHeight,
                       clientHeight, scrollTop, isToday, nowFraction,
                       scrollContainerRef, eventRefs, intervals, intervalId,
                       priorityMap, blocks, labels, clickLog>>

\* The view is unmounted: the effect's cleanup runs and React detaches the
\* container ref; the <li> ref callbacks are called with null and keep
\* eventRefs as it is
Unmount ==
    /\ phase = "mounted"
    /\ phase' = "unmounted"
    /\ intervals' = Cleanup(intervals, intervalId)
    /\ scrollContainerRef' = FALSE
    /\ UNCHANGED <<now, tz, elapsed, date, events, scrollHeight, clientHeight,
                   scrollTop, isToday, nowFraction, eventRefs, intervalId,
                   timeouts, highlighted, priorityMap, blocks, labels, clickLog>>

\* One second passes; no timer is overdue
Advance(limit) ==
    /\ phase # "init"
    /\ elapsed < limit
    /\ ~TimerDue
    /\ now' = now + 1
    /\ elapsed' = elapsed + 1
    /\ UNCHANGED <<tz, phase, date, events, scrollHeight, clientHeight,
                   scrollTop, isToday, nowFraction, scrollContainerRef,
                   eventRefs, intervals, intervalId, timeouts, highlighted,
                   priorityMap, blocks, labels, clickLog>>

(***************************************************************************)
(* Initial states                                                          *)
(***************************************************************************)
Midnight == 2 * SecondsPerDay
ViewDates == {1, 2}
TZOffsets == {0, 0 - 60 * SecondsPerMinute}
StartTimes == {Midnight - 5, Midnight - 62}
ClickIds == {1, 2, 3, 4}

\* Before the first render
Unmounted ==
    /\ elapsed = 0
    /\ phase = "init"
    /\ scrollTop = 0
    /\ isToday = FALSE
    /\ nowFraction = 0
    /\ scrollContainerRef = FALSE
    /\ eventRefs = {}
    /\ intervals = {}
    /\ intervalId = 0
    /\ timeouts = {}
    /\ highlighted = {}
    /\ priorityMap = EmptyPriorityMap
    /\ blocks = <<>>
    /\ labels = <<>>
    /\ clickLog = <<>>

\* The timeline is 48 slots of 3.5rem (56px) tall
Init ==
    /\ Unmounted
    /\ now \in StartTimes
    /\ tz \in TZOffsets
    /\ date \in ViewDates
    /\ events = PageEvents(date)
    /\ scrollHeight = 2688
    /\ clientHeight = 800

Next ==
    \/ Mount
    \/ \E d \in ViewDates : Rerender(d)
    \/ IntervalTick
    \/ TodayClick
    \/ Unmount
    \/ Advance(MaxElapsed)

Spec == Init /\ [][Next]_vars

(***************************************************************************)
(* The lifecycle of the 60-second timer and of the current-time marker     *)
(* (checked under Spec)                                                    *)
(***************************************************************************)
\* The real current date, read from the clock as the view's own test reads it
RealDate == UTCDate(now)

\* {isToday && <div ... style={{ top: `${nowFraction * 100}%` }} />}
MarkerRendered == phase = "mounted" /\ isToday

\* The offset the scroll-to-now computation is specified to leave
NowOffset ==
    Max(0, Min(LocalMinutes(now) * MaxScroll * 200, MaxScroll * ScrollUnit))

\* C2: whenever the view is not mounted or the viewed date is not the real
\* current date, no 60-second timer is scheduled.
C2_NoTimerUnlessMountedToday ==
    (phase # "mounted" \/ date # RealDate) => intervals = {}

\* C3: whenever the viewed date differs from the real current date, the
\* current-time marker is not rendered.
C3_NoMarkerUnlessToday ==
    (phase = "mounted" /\ date # RealDate) => ~MarkerRendered

\* What the code does keep of C4: in every state a render found to be today
MarkerFollowsClockWhenRendered ==
    [][/\ (phase' = "mounted" /\ isToday') =>
              /\ nowFraction' \in 0..(TotalDayMinutes - 1)
              /\ \E t \in intervals' : t.due <= now' + IntervalSeconds
       /\ (Mount \/ (IntervalTick /\ phase = "mounted")) =>
              nowFraction' = LocalMinutes(now')]_vars

\* What the code does keep of C8: the renders that find today to begin scroll
ScrollWheneverRenderedTodayBegins ==
    [][(/\ phase' = "mounted" /\ isToday'
        /\ ~(phase = "mounted" /\ isToday))
       => scrollTop' = NowOffset']_vars

\* C4: while the view is mounted and the viewed date is the real current
\* date, the marker is rendered at a fraction in [0,1) and a recomputation is
\* due within 60 seconds; the mount and every firing of the timer set the
\* fraction to the current minutes of the day over 1440.
C4_MarkerFollowsClock ==
    [][/\ (phase' = "mounted" /\ date' = RealDate') =>
              /\ MarkerRendered'
              /\ nowFraction' \in 0..(TotalDayMinutes - 1)
              /\ \E t \in intervals' : t.due <= now' + IntervalSeconds
       /\ (Mount \/ (IntervalTick /\ phase = "mounted")) =>
              nowFraction' = LocalMinutes(now')]_vars

\* C8: every step that leaves the view mounted with the viewed date equal to
\* the real current date, out of a state where it was not mounted or the two
\* dates differed, scrolls the container to the current-time offset.
C8_ScrollWheneverTodayBegins ==
    [][(/\ phase' = "mounted" /\ date' = RealDate'
        /\ (phase # "mounted" \/ date # RealDate))
       => scrollTop' = NowOffset']_vars

\* What the code does keep: a timer is scheduled exactly while the view is
\* mounted and its latest render found the viewed date to be today, and it is
\* the one timer the effect's closure holds.
TimerFollowsRenderedToday ==
    /\ (intervals # {}) = (phase = "mounted" /\ isToday)
    /\ phase = "mounted" =>
           intervals = IF isToday
                       THEN {t \in intervals : t.id = intervalId}
                       ELSE {}
    /\ \A t \in intervals : t.due <= now + IntervalSeconds

\* What the code does keep: a render never shows the marker on another day;
\* the marker outlives the day by less than one period of the timer.
MarkerStaleUnderOnePeriod ==
    (MarkerRendered /\ date # RealDate) =>
        /\ date = RealDate - 1
        /\ now - RealDate * SecondsPerDay < IntervalSeconds

(***************************************************************************)
(* Clicks on the priority list and their highlight timers                  *)
(* (checked under SpecHighlight: the view is mounted at noon of the viewed *)
(* day, the parent does not render it again, and up to MaxClicks clicks    *)
(* arrive within MaxClickElapsed seconds)                                  *)
(***************************************************************************)
Noon == SecondsPerDay + 12 * 60 * SecondsPerMinute

InitHighlight ==
    /\ Unmounted
    /\ now = Noon
    /\ tz = 0
    /\ date = UTCDate(Noon)
    /\ events = PageEvents(date)
    /\ scrollHeight = 2688
    /\ clientHeight = 800

NextHighlight ==
    \/ Mount
    \/ \E id \in ClickIds : handlePriorityClick(id)
    \/ HighlightTimeout
    \/ Unmount
    \/ Advance(MaxClickElapsed)

SpecHighlight == InitHighlight /\ [][NextHighlight]_vars

\* C1: from each click on a grouped entry until 2 seconds after it, the
\* matching block carries the highlight, and a block carries the highlight
\* only while 2 seconds have not passed since a click on its entry.
C1_HighlightLastsTwoSeconds ==
    /\ \A t \in timeouts : t.due > now => t.el \in highlighted
    /\ \A el \in highlighted :
           \E t \in timeouts : t.el = el /\ t.due >= now

\* What the code does keep of C1: a block carries the highlight only while
\* a timer of a click on its entry is pending, and every timer fires 2 seconds
\* after its click
HighlightNeverOutlivesTwoSeconds ==
    /\ \A el \in highlighted :
           \E t \in timeouts : t.el = el /\ t.due >= now
    /\ \A t \in timeouts :
           t.due \in now..(now + HighlightSeconds)

\* C5: the highlight of a block changes only in a step that is a click on
\* its own entry (which adds it) or the firing of a timer started by a click
\* on its own entry (which removes it); clicks on other entries and their
\* timers leave it as it is.
C5_TimersDoNotInterfere ==
    [][\A b \in ClickIds :
          /\ (b \in highlighted' /\ b \notin highlighted) =>
                 clickLog' = Append(clickLog, b)
          /\ (b \in highlighted /\ b \notin highlighted') =>
                 /\ clickLog' = clickLog
                 /\ \E t \in timeouts :
                        t.el = b /\ t.due = now /\ timeouts' = timeouts \ {t}
          /\ {t \in timeouts' : t.el = b} # {t \in timeouts : t.el = b} =>
                 \/ clickLog' = Append(clickLog, b)
                 \/ \E t \in timeouts :
                        t.el = b /\ t.due = now /\ timeouts' = timeouts \ {t}
      ]_vars

\* C5 witness: entry 1 was clicked, then entry 2 a second later; the timer of
\* entry 1 has fired and block 2 is still highlighted, its timer pending
C5_Witness ==
    /\ clickLog = <<1, 2>>
    /\ highlighted = {2}
    /\ timeouts = {[el |-> 2, due |-> now + 1]}

\* C10: a call of handlePriorityClick with an id that has no registered
\* block, or while the scroll container is absent, changes nothing of the
\* view: no scroll, no highlight, no timer.
C10_ClickWithoutTargetIsNoOp ==
    [][\A id \in ClickIds :
          (/\ clickLog' = Append(clickLog, id)
           /\ ~(id \in eventRefs /\ scrollContainerRef))
          => UNCHANGED <<scrollTop, highlighted, timeouts, intervals,
                         intervalId, isToday, nowFraction, eventRefs,
                         scrollContainerRef, priorityMap, blocks, labels, phase,
                         date, events>>]_vars

\* C10 witness: with block 1 highlighted, entry 4 (no block) was clicked;
\* then, the view unmounted, entry 2 was clicked
C10_Witness ==
    /\ clickLog = <<1, 4, 2>>
    /\ elapsed = 0
    /\ phase = "unmounted"
    /\ highlighted = {1}
    /\ timeouts = {[el |-> 1, due |-> now + HighlightSeconds]}
    /\ scrollTop = scrollIntoViewCenter(1)

(***************************************************************************)
(* Grouping by priority (checked under SpecGroup: the view is rendered     *)
(* once, for every list of up to MaxEvents events with distinct ids)       *)
(***************************************************************************)
GroupEvent(id, p) ==
    [id |-> id, start |-> IsoAt(1, 6 + id, 0), end |-> IsoAt(1, 7 + id, 0),
     priorityLevel |-> p]

GroupEvents ==
    {GroupEvent(id, p) : id \in 1..MaxEvents, p \in PriorityLevels}

DistinctIds(evts) ==
    \A i, j \in DOMAIN evts : evts[i].id = evts[j].id => i = j

GroupInputs ==
    {evts \in UNION {[1..n -> GroupEvents] : n \in 0..MaxEvents} :
        DistinctIds(evts)}

InitGroup ==
    /\ Unmounted
    /\ now = Noon
    /\ tz = 0
    /\ date = UTCDate(Noon)
    /\ events \in GroupInputs
    /\ scrollHeight = 2688
    /\ clientHeight = 800

NextRender == Mount

SpecGroup == InitGroup /\ [][NextRender]_vars

\* The places <<p, j>> of the buckets that hold the event evt
PlacesOf(evt) ==
    {pj \in PriorityLevels \X (1..MaxEvents) :
        /\ pj[2] \in DOMAIN priorityMap[pj[1]]
        /\ priorityMap[pj[1]][pj[2]] = evt}

\* The position of evt in the input list
IndexOf(evts, evt) == CHOOSE i \in DOMAIN evts : evts[i] = evt

\* C6: after a render, every event of the input list is in exactly one place
\* of the three buckets, in the bucket of its priorityLevel; every bucket
\* entry is an event of the input list; and the entries of a bucket are in the
\* order the input list has them in.
C6_PartitionIsOrderedCover ==
    phase = "mounted" =>
        /\ DOMAIN priorityMap = PriorityLevels
        /\ \A i \in DOMAIN events :
               /\ Cardinality(PlacesOf(events[i])) = 1
               /\ \A pj \in PlacesOf(events[i]) :
                      pj[1] = events[i].priorityLevel
        /\ \A p \in PriorityLevels :
               /\ \A j \in DOMAIN priorityMap[p] :
                      \E i \in DOMAIN events : events[i] = priorityMap[p][j]
               /\ \A j, k \in DOMAIN priorityMap[p] :
                      j < k => IndexOf(events, priorityMap[p][j])
                                   < IndexOf(events, priorityMap[p][k])

\* C6 witness: a rendered list whose first and third event share a bucket
\* and whose second event is in another
C6_Witness ==
    /\ phase = "mounted"
    /\ Len(events) = 3
    /\ events[1].priorityLevel = 3
    /\ events[2].priorityLevel = 1
    /\ events[3].priorityLevel = 3
    /\ priorityMap[3] = <<events[1], events[3]>>
    /\ priorityMap[1] = <<events[2]>>
    /\ priorityMap[2] = <<>>

(***************************************************************************)
(* Layout of the timeline blocks (checked under SpecLayout: the view of    *)
(* day 1 is rendered once, for every list of up to MaxLayoutEvents events  *)
(* whose start and end are among LayoutInstants)                           *)
(***************************************************************************)
LayoutInstants ==
    {IsoAt(0, 23, 0), IsoAt(1, 0, 0), IsoAt(1, 6, 0), IsoAt(1, 23, 59),
     IsoAt(2, 0, 0)}

LayoutInputs ==
    UNION {[1..n -> [id : 1..MaxLayoutEvents, start : LayoutInstants,
                     end : LayoutInstants, priorityLevel : {1}]]
           : n \in 0..MaxLayoutEvents}

InitLayout ==
    /\ Unmounted
    /\ now = Noon
    /\ tz = 0
    /\ date = UTCDate(Noon)
    /\ events \in {evts \in LayoutInputs :
                      \A i \in DOMAIN evts : evts[i].id = i}
    /\ scrollHeight = 2688
    /\ clientHeight = 800

SpecLayout == InitLayout /\ [][NextRender]_vars

\* start (end) within the viewed day, with start < end
WithinViewedDay(evt) ==
    /\ date * TotalDayMinutes <= evt.start
    /\ evt.start < evt.end
    /\ evt.end < (date + 1) * TotalDayMinutes

\* C9: after a render, the block of every event that starts and ends within
\* the viewed day, start < end, has top% = start minutes of the day / 1440
\* x 100 and height% = (end minutes - start minutes) / 1440 x 100, with
\* height% >= 0 and top% + height% in [0, 100] (percentages as numerators
\* over 1440).
C9_BlockWithinDay ==
    phase = "mounted" =>
        \A i \in DOMAIN events :
            WithinViewedDay(events[i]) =>
                LET startOfDay == date * TotalDayMinutes
                    startMin == events[i].start - startOfDay
                    endMin == events[i].end - startOfDay
                    b == blocks[events[i].id]
                IN  /\ b.top = startMin * 100
                    /\ b.height = (endMin - startMin) * 100
                    /\ b.height >= 0
                    /\ b.top + b.height >= 0
                    /\ b.top + b.height <= 100 * TotalDayMinutes

\* C9 witness: a rendered event from 06:00 to 23:59 of the viewed day
C9_Witness ==
    /\ phase = "mounted"
    /\ Len(events) = 2
    /\ events[2].start = IsoAt(date, 6, 0)
    /\ events[2].end = IsoAt(date, 23, 59)
    /\ blocks[2] = [top |-> 36000, height |-> 107900]

(***************************************************************************)
(* The scroll-to-now computation (checked under SpecScroll: one instant of *)
(* several clocks, time zones and container sizes, with the mount, the     *)
(* parent's renders, the "Today" button and clicks on entry 1)             *)
(***************************************************************************)
ScrollClocks ==
    {SecondsPerDay, SecondsPerDay + 6 * 60 * SecondsPerMinute,
     SecondsPerDay + 45296, Midnight - 1}

Geometries == {<<2688, 800>>, <<2688, 2688>>, <<1000, 300>>}

InitScroll ==
    /\ Unmounted
    /\ now \in ScrollClocks
    /\ tz \in TZOffsets
    /\ date \in ViewDates
    /\ events = PageEvents(date)
    /\ \E g \in Geometries : scrollHeight = g[1] /\ clientHeight = g[2]

NextScroll ==
    \/ Mount
    \/ \E d \in ViewDates : Rerender(d)
    \/ TodayClick
    \/ handlePriorityClick(1)

SpecScroll == InitScroll /\ [][NextScroll]_vars

\* The steps in which scrollToNow passes its guard: the effect of the mount
\* and of a render that finds today to begin, and the "Today" button while
\* the latest render found the viewed date to be today
ScrollToNowRuns ==
    \/ Mount /\ isToday'
    \/ (\E d \in ViewDates : Rerender(d)) /\ ~isToday /\ isToday'
    \/ TodayClick /\ isToday /\ scrollContainerRef

\* C7: every run of the scroll-to-now computation leaves the scroll offset at
\* (current minutes of the day / 1440) x maxScroll, maxScroll = scrollHeight -
\* clientHeight, clamped to [0, maxScroll]; the offset is within [0, maxScroll].
C7_ScrollToNowOffset ==
    [][ScrollToNowRuns =>
          /\ scrollTop' = NowOffset'
          /\ scrollTop' >= 0
          /\ scrollTop' <= MaxScroll * ScrollUnit]_vars

\* C7 witness: after a click had scrolled to block 1, the computation has
\* run and left the offset of the current time, which is another one
C7_Witness ==
    /\ phase = "mounted"
    /\ isToday
    /\ clickLog # <<>>
    /\ scrollTop = NowOffset
    /\ scrollTop > 0
    /\ scrollTop < MaxScroll * ScrollUnit
    /\ scrollTop # scrollIntoViewCenter(1)

(***************************************************************************)
(* The hour labels of the timeline (checked under Spec: every render)      *)
(***************************************************************************)
\* C11: in every rendered view, slot 2h carries, for every hour h in 0..23,
\* the 12-hour number (12 for h = 0 and h = 12, h mod 12 otherwise) followed
\* by AM for h < 12 and PM for h >= 12, so "12AM" for 0, "12PM" for 12 and
\* "1PM" for 13; the labelled slots are exactly the 24 even ones of the 48.
C11_HourLabels ==
    phase = "mounted" =>
        /\ DOMAIN labels = 0..47
        /\ \A h \in 0..23 :
               labels[2 * h] =
                   ToString(IF h \in {0, 12} THEN 12 ELSE h % 12)
                       \o (IF h < 12 THEN "AM" ELSE "PM")
        /\ labels[0] = "12AM"
        /\ labels[24] = "12PM"
        /\ labels[26] = "1PM"
        /\ \A i \in 0..47 : (labels[i] # "") <=> (i % 2 = 0)
        /\ Cardinality({i \in 0..47 : labels[i] # ""}) = 24

\* C11 witness: a rendered view with the labels of midnight, 1AM, noon, 1PM
\* and 11PM in their slots and none in the slots between
C11_Witness ==
    /\ phase = "mounted"
    /\ labels[0] = "12AM"
    /\ labels[1] = ""
    /\ labels[2] = "1AM"
    /\ labels[24] = "12PM"
    /\ labels[26] = "1PM"
    /\ labels[46] = "11PM"
    /\ labels[47] = ""

(***************************************************************************)
(* The number of scheduled 60-second timers (checked under Spec)           *)
(***************************************************************************)
\* C12: after any sequence of mount, renders by the parent and by the tick,
\* changes of the viewed date and of the real date, and unmount, at most one
\* 60-second interval is scheduled: the effect starts a new one only once its
\* cleanup has cleared the previous one.
C12_AtMostOneInterval ==
    Cardinality(intervals) <= 1

\* C12 witness: the view was mounted on the day of its events, which was
\* today, so an interval ran from the mount; the one interval now scheduled
\* is not in step with the mount, so it is a later one that replaced it
C12_Witness ==
    /\ phase = "mounted"
    /\ isToday
    /\ UTCDate(now - elapsed) = events[1].start \div TotalDayMinutes
    /\ \E t \in intervals :
           /\ intervals = {t}
           /\ (t.due - (now - elapsed)) % IntervalSeconds # 0

====
